---- MODULE Spec2Model ----
(***************************************************************************)
(* A model of the blogicum blog application (blog/models.py, blog/views.py,*)
(* blog/urls.py, blog/admin.py): the relational state (users, categories,  *)
(* locations, posts, comments), the clock, and one action per view.        *)
(*                                                                         *)
(* Fields that no view reads (title, text and image of a post, the         *)
(* description of a category, created_at, Location.is_published) are not   *)
(* part of the state.  A comment keeps its text, which EditCommentView     *)
(* edits: the form field that forms.py and EditCommentView call 'comment'  *)
(* is taken to be Comment.text.                                            *)
(***************************************************************************)
EXTENDS Integers, Sequences, FiniteSets, TLC

VARIABLES
    now,              \* the clock read by timezone.now()
    index_now,        \* the timezone.now() frozen into Index.queryset at import
    users,            \* ids of the existing User rows
    categories,       \* id -> [slug, is_published] of the existing Category rows
    locations,        \* ids of the existing Location rows
    posts,            \* id -> Post row
    comments,         \* id -> Comment row
    next_post_id,     \* the AutoField sequence of Post
    next_comment_id,  \* the AutoField sequence of Comment
    response          \* the answer to the last request

vars == <<now, index_now, users, categories, locations, posts, comments,
          next_post_id, next_comment_id, response>>

db == <<users, categories, locations, posts, comments,
        next_post_id, next_comment_id>>

----------------------------------------------------------------------------
(* Bounds of the model *)

MaxTime == 1
MaxPosts == 2
MaxComments == 2
MaxListing == 21

(* Program constants *)

PageSize == 10

(* request.user of a request without a session (AnonymousUser): never equal *)
(* to a User row                                                            *)
Anon == 0

(* a null foreign key *)
None == 0

(* request.GET.get('page') when the query string has no page parameter *)
NoPage == -1

UserIds == {1, 2}
CategoryIds == {1, 2}
LocationIds == {1}
Slugs == {"a", "b", "c"}
Texts == {"x", "y"}
Times == 0..MaxTime

NoResponse == [view |-> "none"]

Requesters == users \cup {Anon}

(* One request is handled at a time: no request is being answered *)
Idle == response = NoResponse

----------------------------------------------------------------------------
(* The ORM *)

Restrict(f, S) == [x \in S |-> f[x]]

(* get_object_or_404(Post, id=post_id) finds a row *)
PostExists(post_id) == post_id \in DOMAIN posts

CommentExists(comment_id) == comment_id \in DOMAIN comments

(* category__is_published=True: an inner join, a null category never matches *)
CategoryIsPublished(p) ==
    /\ posts[p].category # None
    /\ posts[p].category \in DOMAIN categories
    /\ categories[posts[p].category].is_published

(* posts_filter(Post.objects) with timezone.now() evaluated to t *)
posts_filter(t) ==
    {p \in DOMAIN posts :
        /\ posts[p].pub_date <= t
        /\ posts[p].is_published
        /\ CategoryIsPublished(p)}

(* Post.delete(): Comment.post is on_delete=CASCADE *)
PostsAfterDelete(P) == Restrict(posts, DOMAIN posts \ P)

(* Comment.post without the cascade *)
CommentsKept(P) == comments

CommentsAfterPostDelete(P) ==
    Restrict(comments, {c \in DOMAIN comments : comments[c].post \notin P})

----------------------------------------------------------------------------
(* Ordering and pagination *)

Min(a, b) == IF a <= b THEN a ELSE b

(* tie = "asc" / "desc": the two orders a database may give rows of equal    *)
(* pub_date, which ORDER BY pub_date DESC leaves open                         *)
Before(p, q, tie) ==
    \/ posts[p].pub_date > posts[q].pub_date
    \/ /\ posts[p].pub_date = posts[q].pub_date
       /\ IF tie = "asc" THEN p < q ELSE p > q

First(S, tie) == CHOOSE p \in S : \A q \in S \ {p} : Before(p, q, tie)

RECURSIVE Ordered(_, _)
(* Meta.ordering = ('-pub_date',) applied to the rows S *)
Ordered(S, tie) ==
    IF S = {} THEN <<>>
    ELSE LET p == First(S, tie) IN <<p>> \o Ordered(S \ {p}, tie)

(* Paginator.num_pages, orphans = 0, allow_empty_first_page = True *)
num_pages(n) == IF n = 0 THEN 1 ELSE (n + PageSize - 1) \div PageSize

(* a page window that starts one row late *)
pageOffByOne(object_list, number) ==
    LET bottom == (number - 1) * PageSize + 1
        top == Min(bottom + PageSize, Len(object_list))
    IN SubSeq(object_list, bottom + 1, top)

(* Paginator.page(number).object_list for a valid number *)
page(object_list, number) ==
    LET bottom == (number - 1) * PageSize
        top == Min(bottom + PageSize, Len(object_list))
    IN SubSeq(object_list, bottom + 1, top)

(* MultipleObjectMixin.paginate_queryset: page = GET.get('page') or 1 *)
PageNumber(page_param) == IF page_param = NoPage THEN 1 ELSE page_param

(* Paginator.validate_number *)
ValidPage(number, n) == number >= 1 /\ number <= num_pages(n)

(* Paginator.get_page: not an integer -> page 1, out of range -> last page *)
get_page(page_param, n) ==
    IF page_param = NoPage THEN 1
    ELSE IF ValidPage(page_param, n) THEN page_param
    ELSE num_pages(n)

(* a paginated ListView answer *)
ListResponse(view, arg, queryset, page_param, tie) ==
    LET object_list == Ordered(queryset, tie)
        number == PageNumber(page_param)
    IN IF ValidPage(number, Len(object_list))
       THEN [view |-> view, arg |-> arg, status |-> 200,
             queryset |-> queryset, object_list |-> object_list,
             number |-> number, page_param |-> page_param,
             page_obj |-> page(object_list, number)]
       ELSE [view |-> view, arg |-> arg, status |-> 404,
             page_param |-> page_param]

----------------------------------------------------------------------------
(* The clock, and the import of blog/views.py *)

Tick ==
    /\ Idle
    /\ now < MaxTime
    /\ now' = now + 1
    /\ UNCHANGED response
    /\ UNCHANGED <<index_now, db>>

(* The class body of Index runs once per process: posts_filter(Post.objects) *)
(* is built, and timezone.now() read, when the module is imported.           *)
ImportViews ==
    /\ Idle
    /\ index_now # now
    /\ index_now' = now
    /\ UNCHANGED response
    /\ UNCHANGED <<now, db>>

(* The answer is sent and the next request or event is taken *)
RequestFinished ==
    /\ ~Idle
    /\ response' = NoResponse
    /\ UNCHANGED <<now, index_now, db>>

----------------------------------------------------------------------------
(* Listing views *)

Index(u, page_param, tie) ==
    /\ Idle
    /\ u \in Requesters
    /\ response' = ListResponse("index", None, posts_filter(index_now),
                                page_param, tie)
    /\ UNCHANGED <<now, index_now, db>>

(* the category lookup without is_published=True *)
CategoryWithSlugAnyState(s) ==
    {c \in DOMAIN categories : categories[c].slug = s}

CategoryWithSlug(s) ==
    {c \in DOMAIN categories :
        categories[c].slug = s /\ categories[c].is_published}

CategoryPosts(u, s, page_param, tie) ==
    /\ Idle
    /\ u \in Requesters
    /\ LET found == CategoryWithSlug(s) IN
       IF found = {}
       THEN response' = [view |-> "category", arg |-> s, status |-> 404,
                         page_param |-> page_param]
       ELSE LET category == CHOOSE c \in found : TRUE IN
            response' = ListResponse("category", s,
                            {p \in posts_filter(now) :
                                posts[p].category = category},
                            page_param, tie)
    /\ UNCHANGED <<now, index_now, db>>

UserProfileView(u, a, page_param, tie) ==
    /\ Idle
    /\ u \in Requesters
    /\ IF a \notin users
       THEN response' = [view |-> "profile", arg |-> a, user |-> u,
                         status |-> 404, page_param |-> page_param]
       ELSE LET authors_posts == {p \in DOMAIN posts : posts[p].author = a}
                object_list == Ordered(authors_posts, tie)
                number == get_page(page_param, Len(object_list))
            IN response' = [view |-> "profile", arg |-> a, user |-> u,
                            status |-> 200, queryset |-> authors_posts,
                            object_list |-> object_list, number |-> number,
                            page_param |-> page_param,
                            page_obj |-> page(object_list, number)]
    /\ UNCHANGED <<now, index_now, db>>

(* PostDetailView.get_object without the author's branch *)
PostDetailVisibleNoOwner(u, post_id) == post_id \in posts_filter(now)

PostDetailVisible(u, post_id) ==
    \/ u = posts[post_id].author
    \/ post_id \in posts_filter(now)

PostDetailView(u, post_id) ==
    /\ Idle
    /\ u \in Requesters
    /\ response' =
         IF PostExists(post_id) /\ PostDetailVisible(u, post_id)
         THEN [view |-> "detail", user |-> u, post_id |-> post_id,
               status |-> 200, object |-> post_id,
               comments |-> {c \in DOMAIN comments :
                                comments[c].post = post_id}]
         ELSE [view |-> "detail", user |-> u, post_id |-> post_id,
               status |-> 404]
    /\ UNCHANGED <<now, index_now, db>>

----------------------------------------------------------------------------
(* Redirect targets *)

ToLogin == [page |-> "login"]

ToPostDetail(post_id) == [page |-> "post_detail", post_id |-> post_id]

ToProfile(u) == [page |-> "profile", username |-> u]

----------------------------------------------------------------------------
(* Posts *)

(* PostForm / the UpdateView form: category is required and must be a row, *)
(* location may be left blank                                              *)
PostFormValid(cat, loc) ==
    /\ cat \in DOMAIN categories
    /\ loc = None \/ loc \in locations

CreatePost(u, cat, loc, d, pub) ==
    /\ Idle
    /\ u \in Requesters
    /\ IF u = Anon
       THEN /\ response' = [view |-> "create_post", user |-> u,
                            status |-> 302, target |-> ToLogin]
            /\ UNCHANGED <<posts, next_post_id>>
       ELSE IF ~PostFormValid(cat, loc)
       THEN /\ response' = [view |-> "create_post", user |-> u,
                            status |-> 200, error |-> "form"]
            /\ UNCHANGED <<posts, next_post_id>>
       ELSE /\ posts' = posts @@ (next_post_id :>
                          [author |-> u, category |-> cat, location |-> loc,
                           pub_date |-> d, is_published |-> pub])
            /\ next_post_id' = next_post_id + 1
            /\ response' = [view |-> "create_post", user |-> u,
                            status |-> 302, target |-> ToProfile(u)]
    /\ UNCHANGED <<now, index_now, users, categories, locations, comments,
                   next_comment_id>>

(* a test_func that lets every logged-in user through *)
IsPostAuthorLoggedIn(u, post_id) == u # Anon

(* EditPostView.test_func and DeletePostView.test_func *)
IsPostAuthor(u, post_id) == u = posts[post_id].author

(* handle_no_permission of EditPostView and DeletePostView *)
PostNoPermission(view, u, method, post_id) ==
    [view |-> view, user |-> u, method |-> method, post_id |-> post_id,
     status |-> 302, target |-> ToPostDetail(post_id)]

EditPostView(u, method, post_id, cat, loc, d, pub) ==
    /\ Idle
    /\ u \in Requesters
    /\ IF ~PostExists(post_id)
       THEN /\ response' = [view |-> "edit_post", user |-> u,
                            method |-> method, post_id |-> post_id,
                            status |-> 404]
            /\ UNCHANGED posts
       ELSE IF ~IsPostAuthor(u, post_id)
       THEN /\ response' = PostNoPermission("edit_post", u, method, post_id)
            /\ UNCHANGED posts
       ELSE IF method = "GET" \/ ~PostFormValid(cat, loc)
       THEN /\ response' = [view |-> "edit_post", user |-> u,
                            method |-> method, post_id |-> post_id,
                            status |-> 200]
            /\ UNCHANGED posts
       ELSE /\ posts' = [posts EXCEPT ![post_id] =
                          [author |-> posts[post_id].author,
                           category |-> cat, location |-> loc,
                           pub_date |-> d, is_published |-> pub]]
            /\ response' = [view |-> "edit_post", user |-> u,
                            method |-> method, post_id |-> post_id,
                            status |-> 302, target |-> ToPostDetail(post_id)]
    /\ UNCHANGED <<now, index_now, users, categories, locations, comments,
                   next_post_id, next_comment_id>>

DeletePostView(u, method, post_id) ==
    /\ Idle
    /\ u \in Requesters
    /\ IF ~PostExists(post_id)
       THEN /\ response' = [view |-> "delete_post", user |-> u,
                            method |-> method, post_id |-> post_id,
                            status |-> 404]
            /\ UNCHANGED <<posts, comments>>
       ELSE IF ~IsPostAuthor(u, post_id)
       THEN /\ response' = PostNoPermission("delete_post", u, method, post_id)
            /\ UNCHANGED <<posts, comments>>
       ELSE IF method = "GET"
       THEN /\ response' = [view |-> "delete_post", user |-> u,
                            method |-> method, post_id |-> post_id,
                            status |-> 200]
            /\ UNCHANGED <<posts, comments>>
       ELSE /\ posts' = PostsAfterDelete({post_id})
            /\ comments' = CommentsAfterPostDelete({post_id})
            /\ response' = [view |-> "delete_post", user |-> u,
                            method |-> method, post_id |-> post_id,
                            status |-> 302, target |-> ToProfile(u)]
    /\ UNCHANGED <<now, index_now, users, categories, locations,
                   next_post_id, next_comment_id>>

----------------------------------------------------------------------------
(* Comments *)

(* The test of CommentCreateView.form_valid and EditCommentView.form_valid: *)
(*   if post.is_published and post.category.is_published                    *)
(* "error": post.category is None and .is_published raises AttributeError   *)
CommentGate(post_id) ==
    IF ~posts[post_id].is_published THEN "refused"
    ELSE IF posts[post_id].category = None THEN "error"
    ELSE IF categories[posts[post_id].category].is_published THEN "accepted"
    ELSE "refused"

CommentCreateView(u, post_id, text) ==
    /\ Idle
    /\ u \in Requesters
    /\ LET r == [view |-> "add_comment", user |-> u, post_id |-> post_id] IN
       IF u = Anon
       THEN /\ response' = r @@ [status |-> 302, target |-> ToLogin]
            /\ UNCHANGED <<comments, next_comment_id>>
       ELSE IF ~PostExists(post_id)
       THEN /\ response' = r @@ [status |-> 404]
            /\ UNCHANGED <<comments, next_comment_id>>
       ELSE IF CommentGate(post_id) = "error"
       THEN /\ response' = r @@ [status |-> 500, error |-> "AttributeError"]
            /\ UNCHANGED <<comments, next_comment_id>>
       ELSE IF CommentGate(post_id) = "refused"
       THEN /\ response' = r @@ [status |-> 200, error |-> "form"]
            /\ UNCHANGED <<comments, next_comment_id>>
       ELSE /\ next_comment_id <= MaxComments
            /\ comments' = comments @@ (next_comment_id :>
                             [post |-> post_id, author |-> u, text |-> text])
            /\ next_comment_id' = next_comment_id + 1
            /\ response' = r @@ [status |-> 302,
                                 target |-> ToPostDetail(post_id),
                                 object |-> next_comment_id]
    /\ UNCHANGED <<now, index_now, users, categories, locations, posts,
                   next_post_id>>

(* EditCommentView.test_func and DeleteCommentView.test_func *)
IsCommentAuthor(u, comment_id) == u = comments[comment_id].author

(* EditCommentView.handle_no_permission: get_object() is the comment, and *)
(* its id is what the redirect is built from                              *)
EditCommentNoPermissionTarget(comment_id) == ToPostDetail(comment_id)

(* DeleteCommentView.handle_no_permission *)
DeleteCommentNoPermissionTarget(comment_id) ==
    ToPostDetail(comments[comment_id].post)

(* the instance EditCommentView.form_valid saves *)
EditedComment(u, url_post_id, comment_id, text) ==
    [post |-> url_post_id, author |-> u, text |-> text]

EditCommentView(u, method, url_post_id, comment_id, text) ==
    /\ Idle
    /\ u \in Requesters
    /\ LET r == [view |-> "edit_comment", user |-> u, method |-> method,
                 post_id |-> url_post_id, comment_id |-> comment_id] IN
       IF ~CommentExists(comment_id)
       THEN /\ response' = r @@ [status |-> 404]
            /\ UNCHANGED comments
       ELSE IF ~IsCommentAuthor(u, comment_id)
       THEN /\ response' = r @@ [status |-> 302,
                      target |-> EditCommentNoPermissionTarget(comment_id)]
            /\ UNCHANGED comments
       ELSE IF method = "GET"
       THEN /\ response' = r @@ [status |-> 200]
            /\ UNCHANGED comments
       ELSE IF ~PostExists(url_post_id)
       THEN /\ response' = r @@ [status |-> 404]
            /\ UNCHANGED comments
       ELSE IF CommentGate(url_post_id) = "error"
       THEN /\ response' = r @@ [status |-> 500, error |-> "AttributeError"]
            /\ UNCHANGED comments
       ELSE IF CommentGate(url_post_id) = "refused"
       THEN /\ response' = r @@ [status |-> 200, error |-> "form"]
            /\ UNCHANGED comments
       ELSE /\ comments' = [comments EXCEPT ![comment_id] =
                              EditedComment(u, url_post_id, comment_id, text)]
            /\ response' = r @@ [status |-> 302,
                                 target |-> ToPostDetail(url_post_id)]
    /\ UNCHANGED <<now, index_now, users, categories, locations, posts,
                   next_post_id, next_comment_id>>

DeleteCommentView(u, method, url_post_id, comment_id) ==
    /\ Idle
    /\ u \in Requesters
    /\ LET r == [view |-> "delete_comment", user |-> u, method |-> method,
                 post_id |-> url_post_id, comment_id |-> comment_id] IN
       IF ~CommentExists(comment_id)
       THEN /\ response' = r @@ [status |-> 404]
            /\ UNCHANGED comments
       ELSE IF ~IsCommentAuthor(u, comment_id)
       THEN /\ response' = r @@ [status |-> 302,
                      target |-> DeleteCommentNoPermissionTarget(comment_id)]
            /\ UNCHANGED comments
       ELSE IF method = "GET"
       THEN /\ response' = r @@ [status |-> 200]
            /\ UNCHANGED comments
       ELSE /\ comments' = Restrict(comments, DOMAIN comments \ {comment_id})
            /\ response' = r @@ [status |-> 302,
                      target |-> ToPostDetail(comments[comment_id].post)]
    /\ UNCHANGED <<now, index_now, users, categories, locations, posts,
                   next_post_id, next_comment_id>>

----------------------------------------------------------------------------
(* The admin site and the deletion rules of the foreign keys *)

(* CategoryAdmin.list_editable = ('is_published',) *)
AdminSetCategoryPublished(c, b) ==
    /\ Idle
    /\ c \in DOMAIN categories
    /\ categories[c].is_published # b
    /\ categories' = [categories EXCEPT ![c].is_published = b]
    /\ UNCHANGED response
    /\ UNCHANGED <<now, index_now, users, locations, posts, comments,
                   next_post_id, next_comment_id>>

(* Category.slug is unique *)
AdminCreateCategory(c, s, b) ==
    /\ Idle
    /\ c \in CategoryIds \ DOMAIN categories
    /\ \A k \in DOMAIN categories : categories[k].slug # s
    /\ categories' = categories @@ (c :> [slug |-> s, is_published |-> b])
    /\ UNCHANGED response
    /\ UNCHANGED <<now, index_now, users, locations, posts, comments,
                   next_post_id, next_comment_id>>

(* Post.category is on_delete=SET_NULL *)
PostsAfterCategoryDelete(c) ==
    [p \in DOMAIN posts |->
        IF posts[p].category = c
        THEN [posts[p] EXCEPT !.category = None] ELSE posts[p]]

AdminDeleteCategory(c) ==
    /\ Idle
    /\ c \in DOMAIN categories
    /\ categories' = Restrict(categories, DOMAIN categories \ {c})
    /\ posts' = PostsAfterCategoryDelete(c)
    /\ UNCHANGED response
    /\ UNCHANGED <<now, index_now, users, locations, comments,
                   next_post_id, next_comment_id>>

AdminCreateLocation(l) ==
    /\ Idle
    /\ l \in LocationIds \ locations
    /\ locations' = locations \cup {l}
    /\ UNCHANGED response
    /\ UNCHANGED <<now, index_now, users, categories, posts, comments,
                   next_post_id, next_comment_id>>

(* Post.location is on_delete=SET_NULL *)
PostsAfterLocationDelete(l) ==
    [p \in DOMAIN posts |->
        IF posts[p].location = l
        THEN [posts[p] EXCEPT !.location = None] ELSE posts[p]]

AdminDeleteLocation(l) ==
    /\ Idle
    /\ l \in locations
    /\ locations' = locations \ {l}
    /\ posts' = PostsAfterLocationDelete(l)
    /\ UNCHANGED response
    /\ UNCHANGED <<now, index_now, users, categories, comments,
                   next_post_id, next_comment_id>>

CreateUser(u) ==
    /\ Idle
    /\ u \in UserIds \ users
    /\ users' = users \cup {u}
    /\ UNCHANGED response
    /\ UNCHANGED <<now, index_now, categories, locations, posts, comments,
                   next_post_id, next_comment_id>>

(* Post.author is on_delete=CASCADE *)
PostsOfUser(u) == {p \in DOMAIN posts : posts[p].author = u}

(* Comment.author and Comment.post are on_delete=CASCADE *)
CommentsAfterUserDelete(u) ==
    Restrict(comments,
        {c \in DOMAIN comments :
            /\ comments[c].author # u
            /\ comments[c].post \notin PostsOfUser(u)})

DeleteUser(u) ==
    /\ Idle
    /\ u \in users
    /\ users' = users \ {u}
    /\ posts' = PostsAfterDelete(PostsOfUser(u))
    /\ comments' = CommentsAfterUserDelete(u)
    /\ UNCHANGED response
    /\ UNCHANGED <<now, index_now, categories, locations,
                   next_post_id, next_comment_id>>

----------------------------------------------------------------------------
(* Specifications *)

(* Two registered users, two published categories, no post yet *)
InitDb ==
    /\ now = 0
    /\ index_now = 0
    /\ users = UserIds
    /\ categories = (1 :> [slug |-> "a", is_published |-> TRUE])
                    @@ (2 :> [slug |-> "b", is_published |-> TRUE])
    /\ locations = {}
    /\ posts = <<>>
    /\ comments = <<>>
    /\ next_post_id = 1
    /\ next_comment_id = 1
    /\ response = NoResponse

PostIdInputs == 1..(MaxPosts + 1)

CommentIdInputs == 1..(MaxComments + 1)

AnyUser == UserIds \cup {Anon}

Methods == {"GET", "POST"}

(* The post detail page, over posts of both users in the two categories, *)
(* which the admin hides, shows and deletes                              *)
NextDetail ==
    \/ RequestFinished
    \/ Tick
    \/ \E u \in AnyUser, cat \in CategoryIds, d \in Times, pub \in BOOLEAN :
          next_post_id <= MaxPosts /\ CreatePost(u, cat, None, d, pub)
    \/ \E c \in CategoryIds, b \in BOOLEAN : AdminSetCategoryPublished(c, b)
    \/ \E c \in CategoryIds : AdminDeleteCategory(c)
    \/ \E u \in AnyUser, post_id \in PostIdInputs : PostDetailView(u, post_id)

SpecDetail == InitDb /\ [][NextDetail]_vars

(* The category feed, over posts of one user in two categories *)
NextCategory ==
    \/ RequestFinished
    \/ Tick
    \/ \E cat \in CategoryIds, d \in Times, pub \in BOOLEAN :
          next_post_id <= MaxPosts /\ CreatePost(1, cat, None, d, pub)
    \/ \E c \in CategoryIds, b \in BOOLEAN : AdminSetCategoryPublished(c, b)
    \/ \E c \in CategoryIds : AdminDeleteCategory(c)
    \/ \E u \in AnyUser, s \in Slugs : CategoryPosts(u, s, NoPage, "asc")

SpecCategory == InitDb /\ [][NextCategory]_vars

(* The home feed and the profile feed *)
NextFeed ==
    \/ RequestFinished
    \/ Tick
    \/ ImportViews
    \/ \E u \in UserIds, cat \in CategoryIds, d \in Times, pub \in BOOLEAN :
          next_post_id <= MaxPosts /\ CreatePost(u, cat, None, d, pub)
    \/ \E c \in CategoryIds, b \in BOOLEAN : AdminSetCategoryPublished(c, b)
    \/ \E c \in CategoryIds : AdminDeleteCategory(c)
    \/ \E u \in AnyUser : Index(u, NoPage, "asc")
    \/ \E u \in AnyUser, a \in UserIds : UserProfileView(u, a, NoPage, "asc")

SpecFeed == InitDb /\ [][NextFeed]_vars

(* Editing and deleting posts that carry comments *)
NextPostGate ==
    \/ RequestFinished
    \/ \E u \in UserIds :
          next_post_id <= MaxPosts /\ CreatePost(u, 1, None, 0, TRUE)
    \/ \E u \in UserIds, post_id \in PostIdInputs :
          CommentCreateView(u, post_id, "x")
    \/ \E u \in AnyUser, m \in Methods, post_id \in PostIdInputs,
          pub \in BOOLEAN :
          EditPostView(u, m, post_id, 1, None, 0, pub)
    \/ \E u \in AnyUser, m \in Methods, post_id \in PostIdInputs :
          DeletePostView(u, m, post_id)

SpecPostGate == InitDb /\ [][NextPostGate]_vars

(* Writing, editing and deleting comments *)
NextComment ==
    \/ RequestFinished
    \/ Tick
    \/ \E u \in UserIds, d \in Times, pub \in BOOLEAN :
          next_post_id <= MaxPosts /\ CreatePost(u, 1, None, d, pub)
    \/ \E b \in BOOLEAN : AdminSetCategoryPublished(1, b)
    \/ AdminDeleteCategory(1)
    \/ \E u \in AnyUser, post_id \in PostIdInputs, text \in Texts :
          CommentCreateView(u, post_id, text)
    \/ \E u \in AnyUser, m \in Methods, post_id \in PostIdInputs,
          comment_id \in CommentIdInputs, text \in Texts :
          EditCommentView(u, m, post_id, comment_id, text)
    \/ \E u \in AnyUser, m \in Methods, post_id \in PostIdInputs,
          comment_id \in CommentIdInputs :
          DeleteCommentView(u, m, post_id, comment_id)

SpecComment == InitDb /\ [][NextComment]_vars

(* Creating and deleting rows of every table *)
NextRef ==
    \/ RequestFinished
    \/ \E u \in UserIds : CreateUser(u)
    \/ \E u \in UserIds : DeleteUser(u)
    \/ AdminCreateCategory(1, "a", TRUE)
    \/ AdminDeleteCategory(1)
    \/ \E l \in LocationIds : AdminCreateLocation(l)
    \/ \E l \in LocationIds : AdminDeleteLocation(l)
    \/ \E u \in UserIds, loc \in LocationIds \cup {None} :
          next_post_id <= MaxPosts /\ CreatePost(u, 1, loc, 0, TRUE)
    \/ \E u \in UserIds, post_id \in PostIdInputs :
          CommentCreateView(u, post_id, "x")
    \/ \E u \in UserIds, post_id \in PostIdInputs :
          DeletePostView(u, "POST", post_id)
    \/ \E u \in UserIds, comment_id \in CommentIdInputs :
          DeleteCommentView(u, "POST", 1, comment_id)

SpecRef == InitDb /\ [][NextRef]_vars

(* Pagination: one user writes up to MaxListing visible posts, each dated at *)
(* or after the one before, and the three feeds are read page by page        *)
InitPage ==
    /\ now = MaxTime
    /\ index_now = MaxTime
    /\ users = UserIds
    /\ categories = (1 :> [slug |-> "a", is_published |-> TRUE])
    /\ locations = {}
    /\ posts = <<>>
    /\ comments = <<>>
    /\ next_post_id = 1
    /\ next_comment_id = 1
    /\ response = NoResponse

LastPubDate == IF posts = <<>> THEN 0 ELSE posts[next_post_id - 1].pub_date

PageInputs == {NoPage} \cup 0..(num_pages(MaxListing) + 1)

Ties == {"asc", "desc"}

NextPage ==
    \/ RequestFinished
    \/ \E d \in Times :
          /\ next_post_id <= MaxListing
          /\ d >= LastPubDate
          /\ CreatePost(1, 1, None, d, TRUE)
    \/ \E n \in PageInputs, tie \in Ties : Index(Anon, n, tie)
    \/ \E n \in PageInputs, tie \in Ties : CategoryPosts(Anon, "a", n, tie)
    \/ \E n \in PageInputs, tie \in Ties : UserProfileView(Anon, 1, n, tie)

SpecPage == InitPage /\ [][NextPage]_vars

----------------------------------------------------------------------------
(* Properties *)

(* The visibility rule of the specification, at time t: pub_date <= t, the *)
(* post is published, and its category exists and is published             *)
PubliclyVisible(t) ==
    {p \in DOMAIN posts :
        /\ posts[p].pub_date <= t
        /\ posts[p].is_published
        /\ \E c \in DOMAIN categories :
              c = posts[p].category /\ categories[c].is_published}

DetailOf(post_id) == [page |-> "post_detail", post_id |-> post_id]

(* C1: the home feed lists exactly the posts that are publicly visible at *)
(* the time of the request.                                               *)
HomeFeedVisibility ==
    (response.view = "index" /\ response.status = 200)
        => response.queryset = PubliclyVisible(now)

(* C2: the detail page of an existing post answers its author always, and  *)
(* anyone else iff the post is publicly visible at request time; otherwise *)
(* it answers 404, as it does for an id that is no post.                   *)
PostDetailAccess ==
    response.view = "detail" =>
        LET u == response.user
            p == response.post_id
            shown == response.status = 200 /\ response.object = p
        IN /\ response.status \in {200, 404}
           /\ p \notin DOMAIN posts => response.status = 404
           /\ p \in DOMAIN posts =>
                IF u = posts[p].author THEN shown
                ELSE shown <=> p \in PubliclyVisible(now)

(* C2 witness: an author is shown their own post that is not visible *)
AuthorSeesHiddenPost ==
    /\ response.view = "detail"
    /\ response.status = 200
    /\ response.post_id \notin PubliclyVisible(now)
    /\ response.user = posts[response.post_id].author

(* C3: an edit or delete request on a post by anyone but its author changes *)
(* no post and no comment and is answered by a redirect to that post's      *)
(* detail page; a post is changed or removed only by a request of its       *)
(* author on it.                                                            *)
PostOwnershipGate ==
    [][/\ (/\ response'.view \in {"edit_post", "delete_post"}
           /\ response'.post_id \in DOMAIN posts
           /\ response'.user # posts[response'.post_id].author)
          => /\ posts' = posts
             /\ comments' = comments
             /\ response'.status = 302
             /\ response'.target = DetailOf(response'.post_id)
       /\ \A p \in DOMAIN posts :
             (p \notin DOMAIN posts' \/ posts'[p] # posts[p])
             => /\ response'.view \in {"edit_post", "delete_post"}
                /\ response'.post_id = p
                /\ response'.user = posts[p].author]_vars

(* C3 witness: a logged-in user who is not the author asked to delete a *)
(* post that carries a comment, beside another post                     *)
StrangerTurnedAway ==
    /\ response.view = "delete_post"
    /\ response.method = "POST"
    /\ response.status = 302
    /\ response.user # Anon
    /\ response.post_id \in DOMAIN posts
    /\ response.user # posts[response.post_id].author
    /\ \E c \in DOMAIN comments : comments[c].post = response.post_id
    /\ Cardinality(DOMAIN posts) > 1

(* C4: a comment submitted by a logged-in user on an existing post is     *)
(* stored, for that user and post, iff the post is publicly visible at    *)
(* request time; otherwise nothing is stored and the form is shown again  *)
(* with a form-level error, without an exception.                         *)
CommentAcceptance ==
    [][(/\ response'.view = "add_comment"
        /\ response'.user # Anon
        /\ response'.post_id \in DOMAIN posts)
       => IF response'.post_id \in PubliclyVisible(now)
          THEN /\ response'.status = 302
               /\ \E c \in DOMAIN comments' \ DOMAIN comments :
                     /\ DOMAIN comments' = DOMAIN comments \cup {c}
                     /\ comments'[c].post = response'.post_id
                     /\ comments'[c].author = response'.user
          ELSE /\ comments' = comments
               /\ response'.status = 200
               /\ response'.error = "form"]_vars

(* C5: the profile feed of A lists only A's posts: all of them for A, and *)
(* exactly the publicly visible ones for every other viewer.              *)
ProfileFeedVisibility ==
    (response.view = "profile" /\ response.status = 200) =>
        LET own == {p \in DOMAIN posts : posts[p].author = response.arg}
        IN response.queryset =
             IF response.user = response.arg THEN own
             ELSE own \cap PubliclyVisible(now)

RECURSIVE ConcatPages(_, _)
(* pages 1..k of a listing, one after the other *)
ConcatPages(object_list, k) ==
    IF k = 0 THEN <<>>
    ELSE ConcatPages(object_list, k - 1) \o page(object_list, k)

RefIntegrity ==
    /\ \A c \in DOMAIN comments :
          /\ comments[c].post \in DOMAIN posts
          /\ comments[c].author \in users
    /\ \A p \in DOMAIN posts :
          /\ posts[p].author \in users
          /\ posts[p].category = None \/ posts[p].category \in DOMAIN categories
          /\ posts[p].location = None \/ posts[p].location \in locations

DeletionEffects ==
    /\ \A u \in users \ users' :
          /\ DOMAIN posts' = {p \in DOMAIN posts : posts[p].author # u}
          /\ \A p \in DOMAIN posts' : posts'[p] = posts[p]
          /\ \A c \in DOMAIN comments :
                posts[comments[c].post].author = u => c \notin DOMAIN comments'
    /\ (users' = users /\ DOMAIN posts' # DOMAIN posts
        /\ DOMAIN posts' \subseteq DOMAIN posts) =>
          /\ DOMAIN comments' =
               {c \in DOMAIN comments : comments[c].post \in DOMAIN posts'}
          /\ \A c \in DOMAIN comments' : comments'[c] = comments[c]
          /\ \A p \in DOMAIN posts' : posts'[p] = posts[p]
    /\ \A k \in DOMAIN categories \ DOMAIN categories' :
          /\ DOMAIN posts' = DOMAIN posts
          /\ \A p \in DOMAIN posts :
                /\ posts'[p].category =
                     IF posts[p].category = k THEN None ELSE posts[p].category
                /\ [posts'[p] EXCEPT !.category = None]
                     = [posts[p] EXCEPT !.category = None]
          /\ comments' = comments
    /\ \A l \in locations \ locations' :
          /\ DOMAIN posts' = DOMAIN posts
          /\ \A p \in DOMAIN posts :
                /\ posts'[p].location =
                     IF posts[p].location = l THEN None ELSE posts[p].location
                /\ [posts'[p] EXCEPT !.location = None]
                     = [posts[p] EXCEPT !.location = None]
          /\ comments' = comments

(* C7: every comment references an existing post and an existing author,   *)
(* every post an existing author and a category and a location that each   *)
(* exist or are absent; deleting a user removes that user's posts and the  *)
(* comments on them, deleting a post removes exactly the comments on it,   *)
(* and deleting a category or a location removes no post and sets the      *)
(* reference of its posts to absent.                                       *)
ReferentialIntegrity == []RefIntegrity /\ [][DeletionEffects]_vars

(* C7 witness: a post that carried the first comment was deleted by its *)
(* author, and the second comment, on another post, is still there      *)
PostDeletedWithItsComments ==
    /\ response.view = "delete_post"
    /\ response.status = 302
    /\ response.target.page = "profile"
    /\ next_comment_id = 3
    /\ DOMAIN comments = {2}
    /\ response.post_id # comments[2].post

(* C8: the category feed of slug s answers 404 when no category has slug s *)
(* or that category is not published; otherwise it lists exactly the posts *)
(* of that category with pub_date <= now that are published.               *)
CategoryFeed ==
    response.view = "category" =>
        LET cats == {c \in DOMAIN categories :
                        categories[c].slug = response.arg}
        IN IF cats = {} \/ \E c \in cats : ~categories[c].is_published
           THEN response.status = 404
           ELSE /\ response.status = 200
                /\ response.queryset =
                     {p \in DOMAIN posts :
                         /\ posts[p].category \in cats
                         /\ posts[p].pub_date <= now
                         /\ posts[p].is_published}

(* C8 witness: a feed that lists a post and leaves out a visible post of *)
(* another category                                                      *)
OtherCategoryLeftOut ==
    /\ response.view = "category"
    /\ response.status = 200
    /\ response.queryset # {}
    /\ PubliclyVisible(now) \ response.queryset # {}

(* C9: an edit-comment or delete-comment request by anyone but the        *)
(* comment's author changes no comment and is answered by a redirect to   *)
(* the detail page of the post the comment belongs to.                    *)
CommentOwnershipGate ==
    [][(/\ response'.view \in {"edit_comment", "delete_comment"}
        /\ response'.comment_id \in DOMAIN comments
        /\ response'.user # comments[response'.comment_id].author)
       => /\ comments' = comments
          /\ response'.status = 302
          /\ response'.target =
               DetailOf(comments[response'.comment_id].post)]_vars

(* C10: a successful edit of a comment by its author, whatever post id the *)
(* URL carries, leaves the comment's post and author as they were and      *)
(* every other comment unchanged; only the text may change.                *)
CommentEditKeepsAttachment ==
    [][(/\ response'.view = "edit_comment"
        /\ response'.method = "POST"
        /\ response'.status = 302
        /\ response'.comment_id \in DOMAIN comments
        /\ response'.user = comments[response'.comment_id].author)
       => /\ DOMAIN comments' = DOMAIN comments
          /\ \A c \in DOMAIN comments :
                /\ comments'[c].post = comments[c].post
                /\ comments'[c].author = comments[c].author
                /\ c # response'.comment_id => comments'[c] = comments[c]]_vars

====
